---- MODULE Spec2Model ----
(***************************************************************************)
(* SmartQueue of kyvro-desktop/src/lib/db-simple.ts: a priority queue of    *)
(* asynchronous operations with a concurrency cap, a rate window, retry     *)
(* with exponential backoff, artificial delay, pause/resume, clearQueue and *)
(* drain.  Time is in milliseconds and is kept relative: a timer carries    *)
(* the time left until it is due, a timestamp is kept as its age.           *)
(* JavaScript runs every handler to its first await without interruption,   *)
(* so each action below is one such run.                                    *)
(*                                                                         *)
(* With it: the delivery client WhatsAppApiService and the SecureStore it   *)
(* reads the credentials from (a call is a sequence of steps, one per       *)
(* await), WhatsAppQueue with the delivery client as the queued operation,  *)
(* the messages table and the campaigns table of DatabaseService,           *)
(* sendBulkMessages of WhatsAppQueue, and SchedulerService with its         *)
(* one-minute interval and its campaign executions.                         *)
(***************************************************************************)
EXTENDS Integers, Sequences, FiniteSets, TLC

\* ---------------------------------------------------------------- bounds
MaxTasks == 3          \* number of items added in one behaviour
MaxBatches == 1        \* number of addBatch() calls in one behaviour
MaxCalls == 2          \* number of delivery-client calls in one behaviour
MaxMessages == 2       \* number of rows in the messages table
MaxCampaigns == 2      \* number of rows in the campaigns table
MaxRecorders == 2      \* number of outcomes recorded in one behaviour
MaxSchedTasks == 2     \* number of createTask() calls in one behaviour
MaxTicks == 3          \* number of ticks of the scheduler's interval

\* ------------------------------------------------------ program constants
RateWindow == 1000     \* checkRateLimit: oneSecondAgo = now - 1000
DrainPoll == 100       \* drain: setTimeout(resolve, 100)
DefaultMaxConcurrency == 5
DefaultRateLimitPerSecond == 50
DefaultMaxAttempts == 3
DefaultRetryDelay == 1000
WhatsAppRetryDelay == 2000
CheckEvery == 60000    \* startScheduler: setInterval(..., 60 * 1000)
Day == 86400000        \* calculateNextRunTime: 24 * 60 * 60 * 1000
DefaultBatchSize == 50     \* executeCampaignTask: settings.batchSize || 50
DefaultBatchDelay == 1000  \* executeCampaignTask: settings.delayBetweenBatches || 1000
DefaultBulkBatchSize == 10     \* sendBulkMessages: batchSize: number = 10
DefaultBulkBatchDelay == 1000  \* sendBulkMessages: batchDelay: number = 1000

\* ------------------------------------------------------------------ inputs
\* the arguments of add(): priority, options.maxAttempts, options.delay
\* (0 stands for "not given")
AddInputs ==
  { [priority |-> 0, maxAttempts |-> 1, delay |-> 0],
    [priority |-> 1, maxAttempts |-> 0, delay |-> 0],
    [priority |-> 0, maxAttempts |-> 0, delay |-> 100] }

\* the arguments of WhatsAppQueue's super() call
WhatsAppConfig ==
  [maxConcurrency |-> 3, rateLimitPerSecond |-> 50, defaultMaxAttempts |-> 3,
   defaultDelay |-> 0, retryDelay |-> WhatsAppRetryDelay]

\* raw constructor arguments (0 stands for "not given")
RawConfigs ==
  { [maxConcurrency |-> 1, rateLimitPerSecond |-> 0, defaultMaxAttempts |-> 2,
     defaultDelay |-> 0, retryDelay |-> 100],
    [maxConcurrency |-> 2, rateLimitPerSecond |-> 1, defaultMaxAttempts |-> 0,
     defaultDelay |-> 0, retryDelay |-> 200],
    [maxConcurrency |-> 2, rateLimitPerSecond |-> 0, defaultMaxAttempts |-> 0,
     defaultDelay |-> 100, retryDelay |-> 100] }

VARIABLES
  options,           \* this.options
  items,             \* every QueueItem created by add(); the item id is its index
  queue,             \* this.queue: sequence of item ids
  running,           \* this.running: set of item ids
  processing,        \* this.processing
  lastProcessTimes,  \* this.lastProcessTimes, as ages (now - time)
  timers,            \* pending setTimeout callbacks
  promise,           \* state of the promise returned by add(), per item
  drainState,        \* the caller of drain(): "idle", "waiting", "resolved"
  paused,            \* history: pause() was called and resume() not yet
  startLog,          \* history: the starts made by the last step, each with the
                     \*          pending list left at that moment
  startsNow,         \* history: number of starts since time last moved on
  settled,           \* what the promise of each item was settled with
  attemptLog,        \* history: per item, the outcome of each finished invocation
  batches,           \* the promises returned by addBatch(): Promise.all over members
  stats,             \* the value returned by the last getStats(), << >> before
  keychain,          \* the keytar entry 'api-credentials' read by SecureStore
  calls,             \* the calls of WhatsAppApiService methods, each with its position
  requests,          \* history: the requests handed to the network, with their headers
  sendLog,           \* history: what the last invocation of a queued send returned
  db,                \* DatabaseService: this.db is open
  messages,          \* the rows of the messages table; the row id is its index
  campaigns,         \* the rows of the campaigns table; the row id is its index
  recorders,         \* the tasks persisting an outcome, each with its position
  bulk,              \* the call of sendBulkMessages(): its position and its results
  clearedIdle,       \* history: the items that were not running at the last clearQueue()
  isRunning,         \* SchedulerService: this.isRunning
  checkInterval,     \* this.checkInterval: the time of the next tick, -1 for null
  tasks,             \* every task created, in insertion order (inMap: it is in
                     \*   this.tasks); the task id is its index
  passes,            \* the calls of checkAndExecuteTasks(), each with its position
  execs,             \* the calls of executeTask(), each with its position (and,
                     \*   as history, whether the window was there throughout)
  events,            \* history: per execution, the events sent to the window
  mainWindow,        \* this.mainWindow: "null", "open" or "destroyed"
  now                \* the clock the scheduler reads (new Date()), in ms

vars == << options, items, queue, running, processing, lastProcessTimes, timers,
           promise, drainState, paused, startLog, startsNow,
           settled, attemptLog, batches, stats,
           keychain, calls, requests, sendLog, db, messages, campaigns, recorders,
           bulk, clearedIdle,
           isRunning, checkInterval, tasks, passes, execs, events, mainWindow, now >>

\* the state of the store and of the tasks writing to it
dbVars == << db, messages, campaigns, recorders >>

\* the state of the scheduler
schedVars == << isRunning, checkInterval, tasks, passes, execs, events, mainWindow, now >>

\* the variables of the queue
queueVars == << options, items, queue, running, processing, lastProcessTimes, timers,
               promise, drainState, paused, startLog, startsNow,
               settled, attemptLog, batches, stats >>

\* the state of the delivery client and of the secret store
clientVars == << keychain, calls, requests >>

\* what the callers of add() and addBatch() hold
resultVars == << settled, attemptLog, batches >>

\* ----------------------------------------------------------------- helpers
\* the items created so far
Ids == 1..Len(items)

\* JavaScript's  x || d  on numbers: 0 (and undefined) are falsy
OrDefault(x, d) == IF x = 0 THEN d ELSE x

RECURSIVE Pow2(_)
Pow2(n) == IF n <= 0 THEN 1 ELSE 2 * Pow2(n - 1)

SeqToSet(s) == { s[i] : i \in 1..Len(s) }

MaxOf(S) == CHOOSE x \in S : \A y \in S : y <= x
MinOf(S) == CHOOSE x \in S : \A y \in S : x <= y

MaxPriority == MaxOf({ a.priority : a \in AddInputs })

\* constructor
MakeOptions(raw) ==
  [ maxConcurrency     |-> OrDefault(raw.maxConcurrency, DefaultMaxConcurrency),
    rateLimitPerSecond |-> OrDefault(raw.rateLimitPerSecond, DefaultRateLimitPerSecond),
    defaultMaxAttempts |-> OrDefault(raw.defaultMaxAttempts, DefaultMaxAttempts),
    defaultDelay       |-> OrDefault(raw.defaultDelay, 0),
    retryDelay         |-> OrDefault(raw.retryDelay, DefaultRetryDelay) ]

\* sortQueue without the sort
sortQueueNone(q, its) == q

\* sortQueue: Array.prototype.sort with (a, b) => b.priority - a.priority,
\* a stable sort by descending priority
RECURSIVE sortFrom(_, _, _)
sortFrom(q, its, p) ==
  IF p < 0 THEN << >>
  ELSE SelectSeq(q, LAMBDA id : its[id].priority = p) \o sortFrom(q, its, p - 1)

sortQueue(q, its) == sortFrom(q, its, MaxPriority)

\* the backoff with the exponent one too high
BackoffDelayDouble(retryDelay, attempts) == retryDelay * Pow2(attempts)

\* the delay of the k-th retry, processItem's retryDelay
BackoffDelay(retryDelay, attempts) == retryDelay * Pow2(attempts - 1)

\* the loop condition with <= for <
hasSlotOffByOne(run) == Cardinality(run) <= options.maxConcurrency

\* the loop condition of process(): a concurrency slot is free
hasSlot(run) == Cardinality(run) < options.maxConcurrency

\* the attempt test with > for >=
exhaustedLate(item) == item.attempts > item.maxAttempts

\* processItem's catch: no attempt is left
exhausted(item) == item.attempts >= item.maxAttempts

\* the drain condition without the running set
drainDoneQueueOnly(q, run) == ~(Len(q) > 0)

\* the condition under which drain() returns
drainDone(q, run) == ~(Len(q) > 0 \/ Cardinality(run) > 0)

\* checkRateLimit: the filtered timestamp list
filterTimes(lpt) == SelectSeq(lpt, LAMBDA age : age < RateWindow)

\* a rejection that takes the pending members of the same batch with it
SettleWithSiblings(pr, id, outcome) ==
  [j \in 1..Len(pr) |->
     IF pr[j] # "pending" THEN pr[j]
     ELSE IF j = id THEN outcome
     ELSE IF outcome = "rejected"
             /\ \E b \in 1..Len(batches) :
                  id \in SeqToSet(batches[b].members) /\ j \in SeqToSet(batches[b].members)
          THEN "rejected"
     ELSE pr[j]]

\* a promise settles once; later resolve/reject calls are ignored
Settle(pr, id, outcome) ==
  IF pr[id] = "pending" THEN [pr EXCEPT ![id] = outcome] ELSE pr

\* the value a promise carries before it is settled
NoResult == [kind |-> "none", attempt |-> 0]

\* clearQueue's new Error('Queue cleared')
QueueCleared == [kind |-> "cleared", attempt |-> 0]

\* the rejection carrying the error of the first invocation
attemptResultFirst(item, ok) ==
  [kind |-> IF ok THEN "value" ELSE "error", attempt |-> 1]

\* processItem: the result of this invocation (resolve) or the error it threw
\* (reject), named by the number of the invocation
attemptResult(item, ok) ==
  [kind |-> IF ok THEN "value" ELSE "error", attempt |-> item.attempts]

Timer(kind, id, delay) == [kind |-> kind, id |-> id, delay |-> delay, left |-> delay]

RemoveAt(s, i) == SubSeq(s, 1, i - 1) \o SubSeq(s, i + 1, Len(s))

\* ------------------------------------------------------------ process()
\* The while loop of process().  s carries the fields the loop reads and
\* writes; log collects the starts.  The loop leaves processing TRUE only
\* where it suspends in waitForRateLimit.
RECURSIVE processLoop(_)
processLoop(s) ==
  IF Len(s.queue) > 0 /\ hasSlot(s.running)
  THEN LET lpt == filterTimes(s.lastProcessTimes) IN
       IF ~(Len(lpt) < options.rateLimitPerSecond)
       THEN \* waitForRateLimit: suspend until the oldest timestamp leaves the window
            IF Len(lpt) = 0
            THEN [s EXCEPT !.lastProcessTimes = lpt]
            ELSE [s EXCEPT !.lastProcessTimes = lpt,
                           !.timers = Append(@, Timer("rate", 0,
                                         RateWindow - MaxOf(SeqToSet(lpt))))]
       ELSE LET id == Head(s.queue)
                rest == Tail(s.queue) IN
            IF s.items[id].delay > 0
            THEN processLoop([s EXCEPT !.lastProcessTimes = lpt,
                                       !.queue = rest,
                                       !.timers = Append(@, Timer("delay", id, s.items[id].delay))])
            ELSE \* running.add(item.id); processItem(item) up to its await
                 processLoop([s EXCEPT !.lastProcessTimes = lpt,
                                       !.queue = rest,
                                       !.running = @ \cup {id},
                                       !.items[id].attempts = @ + 1,
                                       !.log = Append(@, [id |-> id, pending |-> rest])])
  ELSE [s EXCEPT !.processing = FALSE]

process(s) ==
  IF s.processing THEN s ELSE processLoop([s EXCEPT !.processing = TRUE])

\* the slot kept by an item that waits for its retry
releaseSlotUnlessRetry(s, id) ==
  process(IF \E i \in 1..Len(s.timers) : s.timers[i].kind = "retry" /\ s.timers[i].id = id
          THEN s ELSE [s EXCEPT !.running = @ \ {id}])

\* a finally block that leaves the item in the running set
releaseSlotKeep(s, id) == process(s)

\* the finally block without the call of process()
releaseSlotOnly(s, id) == [s EXCEPT !.running = @ \ {id}]

\* processItem's finally: running.delete(item.id); process()
releaseSlot(s, id) == process([s EXCEPT !.running = @ \ {id}])

\* the current fields as the record process() works on
Cur == [ queue |-> queue, running |-> running, items |-> items, timers |-> timers,
         lastProcessTimes |-> lastProcessTimes, processing |-> processing,
         log |-> << >> ]

\* store the result of a handler
Store(s) ==
  /\ queue' = s.queue
  /\ running' = s.running
  /\ items' = s.items
  /\ timers' = s.timers
  /\ lastProcessTimes' = s.lastProcessTimes
  /\ processing' = s.processing
  /\ startLog' = s.log
  /\ startsNow' = startsNow + Len(s.log)

\* the body of add(): a new item, queue.push, sortQueue, process
add(s, priority, maxAttempts, delay) ==
  LET id == Len(s.items) + 1
      item == [ priority |-> priority,
                attempts |-> 0,
                maxAttempts |-> OrDefault(maxAttempts, options.defaultMaxAttempts),
                delay |-> OrDefault(delay, options.defaultDelay) ]
      its == Append(s.items, item)
  IN process([s EXCEPT !.items = its, !.queue = sortQueue(Append(s.queue, id), its)])

\* addBatch: executeFunctions.map(fn => this.add(fn, priority, options))
RECURSIVE addMany(_, _, _, _, _)
addMany(s, n, priority, maxAttempts, delay) ==
  IF n = 0 THEN s
  ELSE addMany(add(s, priority, maxAttempts, delay), n - 1, priority, maxAttempts, delay)

\* n more entries of value v
RECURSIVE Extend(_, _, _)
Extend(sq, n, v) == IF n = 0 THEN sq ELSE Extend(Append(sq, v), n - 1, v)

\* Promise.all over the members' promises: rejected with the error of the
\* first member that is rejected, resolved with the list of values when every
\* member is resolved.  order lists the items settled by the step.
PromiseAll(bs, pr, st, order) ==
  [b \in 1..Len(bs) |->
     IF bs[b].state # "pending" THEN bs[b]
     ELSE LET mem == bs[b].members
              failed == SelectSeq(order, LAMBDA id :
                          id \in SeqToSet(mem) /\ pr[id] \in {"rejected", "cancelled"})
          IN IF failed # << >>
             THEN [bs[b] EXCEPT !.state = "rejected", !.error = st[Head(failed)]]
             ELSE IF \A i \in 1..Len(mem) : pr[mem[i]] = "resolved"
             THEN [bs[b] EXCEPT !.state = "resolved",
                                !.results = [i \in 1..Len(mem) |-> st[mem[i]]]]
             ELSE bs[b]]

\* getStats(): the returned object
getStats ==
  [ queueLength |-> Len(queue),
    runningCount |-> Cardinality(running),
    maxConcurrency |-> options.maxConcurrency,
    rateLimitPerSecond |-> options.rateLimitPerSecond,
    currentRate |-> Len(lastProcessTimes) ]

\* sendBulkMessages() has not been called
NoBulk == [ pc |-> "idle", n |-> 0, batchSize |-> 0, batchDelay |-> 0, i |-> 0,
            itemOf |-> << >>, results |-> << >> ]

\* ----------------------------------------------------------------- actions
InitWith(opts, kc) ==
  /\ options = opts
  /\ items = << >>
  /\ queue = << >>
  /\ running = {}
  /\ processing = FALSE
  /\ lastProcessTimes = << >>
  /\ timers = << >>
  /\ promise = << >>
  /\ drainState = "idle"
  /\ paused = FALSE
  /\ startLog = << >>
  /\ startsNow = 0
  /\ settled = << >>
  /\ attemptLog = << >>
  /\ batches = << >>
  /\ stats = << >>
  /\ keychain = kc
  /\ calls = << >>
  /\ requests = {}
  /\ sendLog = << >>
  /\ db = FALSE
  /\ messages = << >>
  /\ campaigns = << >>
  /\ recorders = << >>
  /\ bulk = NoBulk
  /\ clearedIdle = {}
  /\ isRunning = TRUE
  /\ checkInterval = CheckEvery
  /\ tasks = << >>
  /\ passes = << >>
  /\ execs = << >>
  /\ events = << >>
  /\ mainWindow = "null"
  /\ now = 0

\* new SmartQueue(options), with the stored credentials in place
Init == \E raw \in RawConfigs : InitWith(MakeOptions(raw), "valid")

\* add(executeFn, priority, {maxAttempts, delay})
Add(priority, maxAttempts, delay) ==
  /\ Len(items) < MaxTasks
  /\ Store(add(Cur, priority, maxAttempts, delay))
  /\ promise' = Append(promise, "pending")
  /\ settled' = Append(settled, NoResult)
  /\ attemptLog' = Append(attemptLog, << >>)
  /\ UNCHANGED << options, drainState, paused, batches, stats, clientVars, sendLog,
                  dbVars, bulk, clearedIdle, schedVars >>

\* addBatch(executeFunctions, priority, options) with n functions
AddBatch(n, priority, maxAttempts, delay) ==
  /\ n >= 1
  /\ Len(items) + n <= MaxTasks
  /\ Len(batches) < MaxBatches
  /\ Store(addMany(Cur, n, priority, maxAttempts, delay))
  /\ promise' = Extend(promise, n, "pending")
  /\ settled' = Extend(settled, n, NoResult)
  /\ attemptLog' = Extend(attemptLog, n, << >>)
  /\ batches' = Append(batches, [ members |-> [i \in 1..n |-> Len(items) + i],
                                  state |-> "pending",
                                  error |-> NoResult,
                                  results |-> << >> ])
  /\ UNCHANGED << options, drainState, paused, stats, clientVars, sendLog,
                  dbVars, bulk, clearedIdle, schedVars >>

\* the operation of a running item returns or throws: the rest of processItem
processItemEnd(id, ok) ==
  /\ id \in running
  /\ LET tm == IF ok \/ exhausted(items[id]) THEN timers
               ELSE Append(timers, Timer("retry", id,
                              BackoffDelay(options.retryDelay, items[id].attempts)))
     IN /\ promise' = IF ok THEN Settle(promise, id, "resolved")
                      ELSE IF exhausted(items[id]) THEN Settle(promise, id, "rejected")
                      ELSE promise
        /\ Store(releaseSlot([Cur EXCEPT !.timers = tm], id))
  /\ settled' = IF promise[id] = "pending" /\ (ok \/ exhausted(items[id]))
                THEN [settled EXCEPT ![id] = attemptResult(items[id], ok)]
                ELSE settled
  /\ attemptLog' = [attemptLog EXCEPT ![id] = Append(@, ok)]
  /\ batches' = PromiseAll(batches, promise', settled', << id >>)
  /\ UNCHANGED << options, drainState, paused, stats, clientVars,
                  dbVars, bulk, clearedIdle, schedVars >>

Complete(id, ok) == processItemEnd(id, ok) /\ UNCHANGED sendLog

\* a setTimeout callback whose time has come runs
TimerFires(i) ==
  /\ i \in 1..Len(timers)
  /\ timers[i].left = 0
  /\ timers[i].kind \in {"delay", "retry", "rate", "drain"}
  /\ LET t == timers[i]
         tm == RemoveAt(timers, i)
     IN CASE t.kind = "delay" ->
                  \* queue.unshift(item); process()
                  /\ Store(process([Cur EXCEPT !.timers = tm, !.queue = << t.id >> \o queue]))
                  /\ UNCHANGED drainState
             [] t.kind = "retry" ->
                  \* queue.push(item); sortQueue(); process()
                  /\ Store(process([Cur EXCEPT !.timers = tm,
                                               !.queue = sortQueue(Append(queue, t.id), items)]))
                  /\ UNCHANGED drainState
             [] t.kind = "rate" ->
                  \* waitForRateLimit returns; the loop of process() goes on
                  /\ Store(processLoop([Cur EXCEPT !.timers = tm]))
                  /\ UNCHANGED drainState
             [] t.kind = "drain" ->
                  \* drain: the while condition is evaluated again
                  /\ IF drainDone(queue, running)
                     THEN /\ Store([Cur EXCEPT !.timers = tm])
                          /\ drainState' = "resolved"
                     ELSE /\ Store([Cur EXCEPT !.timers = Append(tm, Timer("drain", 0, DrainPoll))])
                          /\ UNCHANGED drainState
  /\ UNCHANGED << options, promise, paused, resultVars, stats, clientVars, sendLog,
                  dbVars, bulk, clearedIdle, schedVars >>

\* time passes, never beyond the next timer that is due
Advance(d) ==
  /\ d > 0
  /\ \A i \in 1..Len(timers) : timers[i].left >= d
  /\ timers' = [i \in 1..Len(timers) |-> [timers[i] EXCEPT !.left = @ - d]]
  /\ lastProcessTimes' = [i \in 1..Len(lastProcessTimes) |->
                            IF lastProcessTimes[i] + d > RateWindow THEN RateWindow
                            ELSE lastProcessTimes[i] + d]
  /\ startsNow' = 0
  /\ startLog' = << >>
  /\ UNCHANGED << options, items, queue, running, processing, promise, drainState, paused,
                  resultVars, stats, clientVars, sendLog, dbVars, bulk, clearedIdle, schedVars >>

\* clearQueue(): the body
clearQueue ==
  /\ promise' = [id \in 1..Len(promise) |->
                   IF id \in SeqToSet(queue) /\ promise[id] = "pending"
                   THEN "cancelled" ELSE promise[id]]
  /\ queue' = << >>
  /\ startLog' = << >>
  /\ settled' = [id \in 1..Len(settled) |->
                   IF id \in SeqToSet(queue) /\ promise[id] = "pending"
                   THEN QueueCleared ELSE settled[id]]
  /\ batches' = PromiseAll(batches, promise', settled', queue)
  /\ UNCHANGED << options, items, running, processing, lastProcessTimes, timers,
                  drainState, paused, startsNow, attemptLog, stats, clientVars, sendLog,
                  dbVars, bulk, schedVars >>

\* clearQueue()
ClearQueue == clearQueue /\ UNCHANGED clearedIdle

\* clearQueue(), with a note of the items that are not running at this moment
ClearQueueNoted == clearQueue /\ clearedIdle' = Ids \ running

\* pause()
Pause ==
  /\ processing' = FALSE
  /\ paused' = TRUE
  /\ startLog' = << >>
  /\ UNCHANGED << options, items, queue, running, lastProcessTimes, timers, promise,
                  drainState, startsNow, resultVars, stats, clientVars, sendLog,
                  dbVars, bulk, clearedIdle, schedVars >>

\* resume()
Resume ==
  /\ Store(IF ~processing THEN process(Cur) ELSE Cur)
  /\ paused' = FALSE
  /\ UNCHANGED << options, promise, drainState, resultVars, stats, clientVars, sendLog,
                  dbVars, bulk, clearedIdle, schedVars >>

\* drain(): the first evaluation of the while condition
Drain ==
  /\ drainState # "waiting"
  /\ IF drainDone(queue, running)
     THEN /\ timers' = timers
          /\ drainState' = "resolved"
     ELSE /\ timers' = Append(timers, Timer("drain", 0, DrainPoll))
          /\ drainState' = "waiting"
  /\ startLog' = << >>
  /\ UNCHANGED << options, items, queue, running, processing, lastProcessTimes, promise,
                  paused, startsNow, resultVars, stats, clientVars, sendLog,
                  dbVars, bulk, clearedIdle, schedVars >>

\* getStats()
GetStats ==
  /\ stats' = << getStats >>
  /\ startLog' = << >>
  /\ UNCHANGED << options, items, queue, running, processing, lastProcessTimes, timers,
                  promise, drainState, paused, startsNow, resultVars, clientVars, sendLog,
                  dbVars, bulk, clearedIdle, schedVars >>

\* ------------------------------------------------- WhatsAppApiService
\* what the provider, or the network, does with a request
\*   kind "response":   a response with an HTTP status came back
\*   kind "noresponse": the request was made but nothing came back (timeout)
\*   kind "setup":      the request could not be set up
\* userMsg: the body has error.error_user_msg; wellFormed: the body of a 2xx
\* response has messages[0].id
Outcome(kind, status, userMsg, wellFormed) ==
  [kind |-> kind, status |-> status, userMsg |-> userMsg, wellFormed |-> wellFormed]

NoOutcome == Outcome("none", 0, FALSE, FALSE)

ErrorStatuses == {400, 401, 403, 404, 418, 429, 500, 503}

ProviderOutcomes ==
  { Outcome("response", 200, FALSE, wf) : wf \in BOOLEAN }
    \cup { Outcome("response", st, FALSE, FALSE) : st \in ErrorStatuses }
    \cup { Outcome("response", st, TRUE, FALSE) : st \in {400, 503} }
    \cup { Outcome("noresponse", 0, FALSE, FALSE), Outcome("setup", 0, FALSE, FALSE) }

\* an Error: its message, with the status the message interpolates (or 0)
Msg(text, status) == [text |-> text, status |-> status]

NoError == Msg("", 0)

\* handleError(error)
handleError(o) ==
  IF o.kind = "response"
  THEN CASE o.status = 400 -> IF o.userMsg THEN Msg("error_user_msg", 0)
                              ELSE Msg("Bad request - Invalid parameters", 0)
         [] o.status = 401 -> Msg("Unauthorized - Invalid or expired access token", 0)
         [] o.status = 403 -> Msg("Forbidden - Insufficient permissions", 0)
         [] o.status = 404 -> Msg("Not found - Resource does not exist", 0)
         [] o.status = 429 -> Msg("Rate limit exceeded - Please try again later", 0)
         [] o.status = 500 -> Msg("Internal server error - Please try again later", 0)
         [] OTHER -> IF o.userMsg THEN Msg("error_user_msg", 0)
                     ELSE Msg("API Error", o.status)
  ELSE IF o.kind = "noresponse"
  THEN Msg("Network error - Unable to connect to WhatsApp API", 0)
  ELSE Msg("request set-up error", 0)

\* how a method body ends: with a returned value or with a thrown Error
Returned(success, messageId) ==
  [threw |-> FALSE, success |-> success, messageId |-> messageId, error |-> NoError]

Thrown(err) == [threw |-> TRUE, success |-> FALSE, messageId |-> FALSE, error |-> err]

NoReturn == [threw |-> FALSE, success |-> FALSE, messageId |-> FALSE, error |-> Msg("none", 0)]

\* apiClient.post / get: axios resolves on a 2xx status; everything else goes
\* through the response interceptor, which rejects with handleError(error)
request(o) ==
  IF o.kind = "response" /\ o.status \in 200..299
  THEN Returned(TRUE, o.wellFormed)
  ELSE Thrown(handleError(o))

\* the test that lets every credential through
noCredentialsNever(creds) == FALSE

\* if (!credentials)
noCredentials(creds) == creds = "null"

\* the try block of sendMessage, from the credentials read by the method
sendMessageTry(creds, o) ==
  IF noCredentials(creds) THEN Thrown(Msg("No API credentials found", 0))
  ELSE LET r == request(o) IN
       IF r.threw THEN r
       ELSE IF ~r.messageId
       THEN Thrown(Msg("TypeError", 0))    \* response.data.messages[0].id
       ELSE Returned(TRUE, TRUE)

\* a catch block that throws the error on
sendMessageRethrow(t) == t

\* the catch block of sendMessage
sendMessageCatch(t) ==
  IF t.threw
  THEN [threw |-> FALSE, success |-> FALSE, messageId |-> FALSE, error |-> t.error]
  ELSE t

sendMessage(creds, o) == sendMessageCatch(sendMessageTry(creds, o))

\* getTemplates: the list of the response, [] after any error
getTemplates(creds, o) ==
  IF noCredentials(creds) THEN Returned(FALSE, FALSE)
  ELSE LET r == request(o) IN
       IF r.threw THEN Returned(FALSE, FALSE) ELSE Returned(TRUE, FALSE)

MethodReturn(method, creds, o) ==
  IF method = "sendMessage" THEN sendMessage(creds, o) ELSE getTemplates(creds, o)

\* what the keychain holds at the start
KeychainInit == {"none", "valid"}

\* a method is called: it runs up to its await of getApiCredentials()
CallMethod(method) ==
  /\ Len(calls) < MaxCalls
  /\ calls' = Append(calls, [method |-> method, pc |-> "read", creds |-> "unread",
                             outcome |-> NoOutcome, result |-> NoReturn])
  /\ UNCHANGED << keychain, requests, queueVars, sendLog, dbVars, bulk, clearedIdle, schedVars >>

\* the call goes on with what getApiCredentials() returned: in the method the
\* null test and the call of post/get, in the request interceptor the header
\* and the dispatch of the request
AfterCredentials(c, got) ==
  IF calls[c].pc \in {"read", "read_clear"}
  THEN /\ calls' = IF noCredentials(got)
                   THEN [calls EXCEPT ![c].pc = "done", ![c].creds = got,
                                      ![c].result = MethodReturn(calls[c].method, got, NoOutcome)]
                   ELSE [calls EXCEPT ![c].pc = "intercept", ![c].creds = got]
       /\ UNCHANGED requests
  ELSE /\ calls' = [calls EXCEPT ![c].pc = "wire"]
       /\ requests' = requests \cup {[call |-> c, authorization |-> got = "valid"]}

\* getApiCredentials(): keytar.getPassword returns the entry or fails
GetCredentials(c, fails) ==
  /\ c \in 1..Len(calls)
  /\ calls[c].pc \in {"read", "intercept"}
  /\ IF fails \/ keychain = "none"
     THEN AfterCredentials(c, "null")
     ELSE IF keychain = "valid"
     THEN AfterCredentials(c, "valid")
     ELSE \* invalid structure: await this.clearApiCredentials()
          /\ calls' = [calls EXCEPT ![c].pc = IF @ = "read" THEN "read_clear"
                                              ELSE "intercept_clear"]
          /\ UNCHANGED requests
  /\ UNCHANGED << keychain, queueVars, sendLog, dbVars, bulk, clearedIdle, schedVars >>

\* getApiCredentials() after an entry of invalid structure: the entry is
\* deleted and null returned
ClearInvalid(c) ==
  /\ c \in 1..Len(calls)
  /\ calls[c].pc \in {"read_clear", "intercept_clear"}
  /\ keychain' = "none"
  /\ AfterCredentials(c, "null")
  /\ UNCHANGED << queueVars, sendLog, dbVars, bulk, clearedIdle, schedVars >>

\* the request of a call comes to its end
ProviderAnswers(c, o) ==
  /\ c \in 1..Len(calls)
  /\ calls[c].pc = "wire"
  /\ calls' = [calls EXCEPT ![c].pc = "done", ![c].outcome = o,
                            ![c].result = MethodReturn(calls[c].method, calls[c].creds, o)]
  /\ UNCHANGED << keychain, requests, queueVars, sendLog, dbVars, bulk, clearedIdle, schedVars >>

\* saveApiCredentials(credentials): keytar.setPassword, complete or not
SaveApiCredentials(kind, fails) ==
  /\ keychain' = IF fails THEN keychain ELSE kind
  /\ UNCHANGED << calls, requests, queueVars, sendLog, dbVars, bulk, clearedIdle, schedVars >>

\* clearApiCredentials()
ClearApiCredentials ==
  /\ keychain' = "none"
  /\ UNCHANGED << calls, requests, queueVars, sendLog, dbVars, bulk, clearedIdle, schedVars >>

ClientNext ==
  \/ \E m \in {"sendMessage", "getTemplates"} : CallMethod(m)
  \/ \E c \in 1..MaxCalls, fails \in BOOLEAN : GetCredentials(c, fails)
  \/ \E c \in 1..MaxCalls : ClearInvalid(c)
  \/ \E c \in 1..MaxCalls, o \in ProviderOutcomes : ProviderAnswers(c, o)
  \/ \E kind \in {"valid", "incomplete"}, fails \in BOOLEAN : SaveApiCredentials(kind, fails)
  \/ ClearApiCredentials

ClientInit == \E kc \in KeychainInit : InitWith(MakeOptions(WhatsAppConfig), kc)

ClientSpec == ClientInit /\ [][ClientNext]_vars

\* time moves on to the next timer; with no timer pending, a whole window passes
TimeSteps == IF timers = << >> THEN {RateWindow}
             ELSE { MinOf({ timers[i].left : i \in 1..Len(timers) }) }

\* ------------------------------------ WhatsAppQueue with the delivery client
\* WhatsAppQueue.sendMessage(sendFunction, phoneNumber, priority)
QueueSendMessage(priority) == Add(priority, 3, 0)

\* what an invocation of the send function meets: no credentials, or an
\* outcome of its request
SendInputs ==
  { [creds |-> "null", outcome |-> NoOutcome] }
    \cup { [creds |-> "valid", outcome |-> o] : o \in ProviderOutcomes }

\* the send function of a running item, the delivery client's sendMessage,
\* comes to its end: processItem goes on with the returned value or the
\* thrown error
SendReturns(id, inp) ==
  LET r == sendMessage(inp.creds, inp.outcome) IN
  /\ processItemEnd(id, ~r.threw)
  /\ sendLog' = << [id |-> id, attempt |-> items[id].attempts,
                    outcome |-> inp.outcome, response |-> r] >>

\* No timeout is pending in these behaviours (the delay is 0 and a retry is
\* scheduled only for an operation that throws), so time only passes.
SendNext ==
  \/ \E p \in 0..MaxPriority : QueueSendMessage(p)
  \/ \E id \in 1..MaxTasks, inp \in SendInputs : SendReturns(id, inp)
  \/ \E d \in TimeSteps : Advance(d)

SendInit == InitWith(MakeOptions(WhatsAppConfig), "valid")

SendSpec == SendInit /\ [][SendNext]_vars

\* ------------------------------------------------------ DatabaseService
MessageStatuses == {"pending", "sent", "delivered", "failed", "read"}

\* initialize()
Initialize ==
  /\ db' = TRUE
  /\ UNCHANGED << messages, campaigns, recorders, queueVars, clientVars, sendLog,
                  bulk, clearedIdle, schedVars >>

\* close()
Close ==
  /\ db' = FALSE
  /\ UNCHANGED << messages, campaigns, recorders, queueVars, clientVars, sendLog,
                  bulk, clearedIdle, schedVars >>

\* createMessage(message): the row is inserted with the status given
CreateMessage(status) ==
  /\ db
  /\ Len(messages) < MaxMessages
  /\ messages' = Append(messages, [status |-> status, messageId |-> "", error |-> "",
                                   sentAt |-> FALSE, deliveredAt |-> FALSE])
  /\ UNCHANGED << db, campaigns, recorders, queueVars, clientVars, sendLog,
                  bulk, clearedIdle, schedVars >>

\* updateMessageStatus(id, status, messageId, error); "" stands for an
\* argument that is not given
UpdateMessageStatus(id, status, messageId, error) ==
  /\ db
  /\ id \in 1..Len(messages)
  /\ messages' = [messages EXCEPT
                    ![id].status = status,
                    ![id].messageId = IF messageId # "" THEN messageId ELSE @,
                    ![id].error = IF error # "" THEN error ELSE @,
                    ![id].sentAt = IF status = "sent" THEN TRUE ELSE @,
                    ![id].deliveredAt = IF status = "delivered" THEN TRUE ELSE @]
  /\ UNCHANGED << db, campaigns, recorders, queueVars, clientVars, sendLog,
                  bulk, clearedIdle, schedVars >>

DbNext ==
  \/ Initialize
  \/ Close
  \/ \E st \in MessageStatuses : CreateMessage(st)
  \/ \E id \in 1..MaxMessages, st \in MessageStatuses,
        mid \in {"", "wamid"}, err \in {"", "error"} : UpdateMessageStatus(id, st, mid, err)

DbInit == InitWith(MakeOptions(WhatsAppConfig), "valid")

DbSpec == DbInit /\ [][DbNext]_vars

\* ------------------------------------------------------ the campaigns table
\* the counts a caller passes
CountInputs == 0..2

CountFields == {"totalContacts", "sentCount", "deliveredCount", "failedCount"}

Campaign(total, sent, delivered, failed) ==
  [ totalContacts |-> total, sentCount |-> sent,
    deliveredCount |-> delivered, failedCount |-> failed ]

\* createCampaign(campaign): INSERT with the counts of the argument
CreateCampaign(c) ==
  /\ db
  /\ Len(campaigns) < MaxCampaigns
  /\ campaigns' = Append(campaigns, c)
  /\ UNCHANGED << db, messages, recorders, queueVars, clientVars, sendLog,
                  bulk, clearedIdle, schedVars >>

\* UPDATE campaigns SET sent_count = ?, delivered_count = ?, failed_count = ?
\* WHERE id = ?
updateCampaignCounts(rows, id, sent, delivered, failed) ==
  IF id \in 1..Len(rows)
  THEN [rows EXCEPT ![id].sentCount = sent,
                    ![id].deliveredCount = delivered,
                    ![id].failedCount = failed]
  ELSE rows

\* updateCampaignCounts(id, sentCount, deliveredCount, failedCount)
UpdateCampaignCounts(id, sent, delivered, failed) ==
  /\ db
  /\ campaigns' = updateCampaignCounts(campaigns, id, sent, delivered, failed)
  /\ UNCHANGED << db, messages, recorders, queueVars, clientVars, sendLog,
                  bulk, clearedIdle, schedVars >>

\* updateCampaign(id, campaign) of the store kept in memory, whose rows have
\* the same fields: {...this.campaigns[index], ...campaign}, here with one
\* field given
UpdateCampaign(id, field, value) ==
  /\ id \in 1..Len(campaigns)
  /\ campaigns' = [campaigns EXCEPT ![id] =
                     [f \in DOMAIN @ |-> IF f = field THEN value ELSE @[f]]]
  /\ UNCHANGED << db, messages, recorders, queueVars, clientVars, sendLog,
                  bulk, clearedIdle, schedVars >>

CampaignNext ==
  \/ Initialize
  \/ Close
  \/ \E t, sn, d, f \in CountInputs : CreateCampaign(Campaign(t, sn, d, f))
  \/ \E id \in 1..MaxCampaigns, sn, d, f \in CountInputs : UpdateCampaignCounts(id, sn, d, f)
  \/ \E id \in 1..MaxCampaigns, fld \in CountFields, v \in CountInputs :
       UpdateCampaign(id, fld, v)

CampaignSpec == DbInit /\ [][CampaignNext]_vars

\* --------------------------------------- tasks persisting their outcome
\* what a finished send adds one to
RecordedOutcomes == {"sent", "delivered", "failed"}

\* the counts read, with the recorded outcome counted
Incremented(row, outcome) ==
  [ sent      |-> row.sentCount + (IF outcome = "sent" THEN 1 ELSE 0),
    delivered |-> row.deliveredCount + (IF outcome = "delivered" THEN 1 ELSE 0),
    failed    |-> row.failedCount + (IF outcome = "failed" THEN 1 ELSE 0) ]

\* A send task of campaign id has finished and records its outcome.  The
\* store offers getCampaigns() and updateCampaignCounts(id, sent, delivered,
\* failed) with absolute numbers, both asynchronous: the task calls
\* getCampaigns() and awaits the rows.
RecordOutcome(id, outcome) ==
  /\ db
  /\ id \in 1..Len(campaigns)
  /\ Len(recorders) < MaxRecorders
  /\ recorders' = Append(recorders, [ campaign |-> id, outcome |-> outcome, pc |-> "read",
                                      row |-> Campaign(0, 0, 0, 0) ])
  /\ UNCHANGED << db, messages, campaigns, queueVars, clientVars, sendLog,
                  bulk, clearedIdle, schedVars >>

\* getCampaigns(): SELECT * FROM campaigns returns the rows as they are now;
\* the task goes on to call updateCampaignCounts with the counts it read
ReadCounts(r) ==
  /\ r \in 1..Len(recorders)
  /\ recorders[r].pc = "read"
  /\ recorders' = [recorders EXCEPT ![r].pc = "write",
                                    ![r].row = campaigns[recorders[r].campaign]]
  /\ UNCHANGED << db, messages, campaigns, queueVars, clientVars, sendLog,
                  bulk, clearedIdle, schedVars >>

\* the UPDATE of the task's updateCampaignCounts call runs
WriteCounts(r) ==
  /\ r \in 1..Len(recorders)
  /\ recorders[r].pc = "write"
  /\ LET n == Incremented(recorders[r].row, recorders[r].outcome)
     IN campaigns' = updateCampaignCounts(campaigns, recorders[r].campaign,
                                          n.sent, n.delivered, n.failed)
  /\ recorders' = [recorders EXCEPT ![r].pc = "done"]
  /\ UNCHANGED << db, messages, queueVars, clientVars, sendLog,
                  bulk, clearedIdle, schedVars >>

\* a campaign is created with its counts at zero, and its send tasks finish
RecordNext ==
  \/ Initialize
  \/ \E t \in CountInputs : CreateCampaign(Campaign(t, 0, 0, 0))
  \/ \E id \in 1..MaxCampaigns, o \in RecordedOutcomes : RecordOutcome(id, o)
  \/ \E r \in 1..MaxRecorders : ReadCounts(r)
  \/ \E r \in 1..MaxRecorders : WriteCounts(r)

RecordSpec == DbInit /\ [][RecordNext]_vars

\* ------------------------------------------------------ SchedulerService
\* Times are in ms on the clock now; -1 stands for undefined (or null).
\* the arguments of createTask() and scheduleCampaign(): contacts is
\* data.contacts.length, batchSize and delay are data.settings (0 stands for
\* "not given")
TaskInputs ==
  { [type |-> "campaign", recurring |-> FALSE, scheduledTime |-> 0,
     contacts |-> 2, batchSize |-> 1, delay |-> 90000],
    [type |-> "campaign", recurring |-> TRUE, scheduledTime |-> 0,
     contacts |-> 3, batchSize |-> 2, delay |-> 0],
    [type |-> "campaign", recurring |-> FALSE, scheduledTime |-> 100000,
     contacts |-> 1, batchSize |-> 0, delay |-> 0],
    [type |-> "reminder", recurring |-> FALSE, scheduledTime |-> 0,
     contacts |-> 0, batchSize |-> 0, delay |-> 0] }

\* calculateNextRunTime(task), for recurring: {type: 'daily'}
calculateNextRunTime(task) ==
  IF ~task.recurring THEN task.scheduledTime ELSE now + Day

\* checkAndExecuteTasks: the test that makes a task due
isDue(task) ==
  /\ task.enabled
  /\ \/ task.nextRun # -1 /\ task.nextRun <= now
     \/ task.scheduledTime <= now /\ task.lastRun = -1

\* the scheduler's fields a handler works on
CurSched == [ tasks |-> tasks, passes |-> passes, execs |-> execs, events |-> events ]

Event(name, contact) == [name |-> name, contact |-> contact]

\* mainWindow.webContents.send(...), guarded by
\* if (this.mainWindow && !this.mainWindow.isDestroyed())
send(s, e, ev) ==
  IF mainWindow = "open" THEN [s EXCEPT !.events[e] = Append(@, ev)] ELSE s

\* the inner loop of executeCampaignTask over contacts.slice(i, i + batchSize)
RECURSIVE sendBatch(_, _, _, _)
sendBatch(s, e, from, to) ==
  IF from > to THEN s
  ELSE sendBatch(send(s, e, Event("message-sent", from)), e, from + 1, to)

RECURSIVE runPass(_, _)
RECURSIVE runBatches(_, _)

\* executeTask after the await of the task's body: lastRun, nextRun or
\* enabled, 'task-executed'; the execution is over and the pass that awaited
\* it goes on with its next due task
finishTask(s, e) ==
  LET id == s.execs[e].task
      s1 == [s EXCEPT !.tasks[id].lastRun = now,
                      !.tasks[id].nextRun =
                         IF s.tasks[id].recurring THEN calculateNextRunTime(s.tasks[id]) ELSE @,
                      !.tasks[id].enabled = IF s.tasks[id].recurring THEN @ ELSE FALSE,
                      !.execs[e].pc = "done"]
      s2 == send(s1, e, Event("task-executed", 0))
      p == s.execs[e].pass
  IN runPass([s2 EXCEPT !.passes[p].pos = @ + 1], p)

\* the completion notification sent while batches are still to come
campaignDoneEarly(i, batchSize, contacts) == TRUE

\* executeCampaignTask: the test that ends the for loop after the batch at i
campaignDone(i, batchSize, contacts) == ~(i + batchSize < contacts)

\* executeCampaignTask from the batch at execs[e].i: the batch's
\* notifications, then either the await of the delay or the completion
runBatches(s, e) ==
  LET t == s.tasks[s.execs[e].task]
      batchSize == OrDefault(t.batchSize, DefaultBatchSize)
      delay == OrDefault(t.delay, DefaultBatchDelay)
      i == s.execs[e].i
      last == IF i + batchSize < t.contacts THEN i + batchSize ELSE t.contacts
      s1 == sendBatch(s, e, i + 1, last)
  IN IF campaignDone(i, batchSize, t.contacts)
     THEN finishTask(send(s1, e, Event("campaign-scheduled-complete", 0)), e)
     ELSE [s1 EXCEPT !.execs[e].pc = "waiting", !.execs[e].wakeAt = now + delay]

\* executeTask(task), called by pass p
executeTask(s, p, id) ==
  LET e == Len(s.execs) + 1
      s1 == [s EXCEPT !.execs = Append(@, [task |-> id, pass |-> p, i |-> 0, pc |-> "running",
                                           wakeAt |-> -1, live |-> mainWindow = "open"]),
                      !.events = Append(@, << >>)]
  IN IF s.tasks[id].type = "campaign"
     THEN runBatches(send(s1, e, Event("campaign-scheduled-start", 0)), e)
     ELSE finishTask(send(s1, e, Event("reminder-triggered", 0)), e)

\* the loop of checkAndExecuteTasks over dueTasks, from the position of pass p
runPass(s, p) ==
  IF s.passes[p].pos > Len(s.passes[p].due) THEN s
  ELSE executeTask(s, p, s.passes[p].due[s.passes[p].pos])

StoreSched(s) ==
  /\ tasks' = s.tasks
  /\ passes' = s.passes
  /\ execs' = s.execs
  /\ events' = s.events

\* createTask(task): nextRun = task.scheduledTime
CreateTask(inp) ==
  /\ Len(tasks) < MaxSchedTasks
  /\ tasks' = Append(tasks, [ type |-> inp.type, recurring |-> inp.recurring,
                              scheduledTime |-> inp.scheduledTime, enabled |-> TRUE,
                              lastRun |-> -1, nextRun |-> inp.scheduledTime, inMap |-> TRUE,
                              contacts |-> inp.contacts, batchSize |-> inp.batchSize,
                              delay |-> inp.delay ])
  /\ UNCHANGED << isRunning, checkInterval, passes, execs, events, mainWindow, now,
                  queueVars, clientVars, sendLog, dbVars, bulk, clearedIdle >>

\* deleteTask(id): a pass that holds the task in its dueTasks keeps it
DeleteTask(id) ==
  /\ id \in 1..Len(tasks)
  /\ tasks[id].inMap
  /\ tasks' = [tasks EXCEPT ![id].inMap = FALSE]
  /\ UNCHANGED << isRunning, checkInterval, passes, execs, events, mainWindow, now,
                  queueVars, clientVars, sendLog, dbVars, bulk, clearedIdle >>

\* disableTask(id)
DisableTask(id) ==
  /\ id \in 1..Len(tasks)
  /\ tasks[id].inMap
  /\ tasks' = [tasks EXCEPT ![id].enabled = FALSE, ![id].nextRun = -1]
  /\ UNCHANGED << isRunning, checkInterval, passes, execs, events, mainWindow, now,
                  queueVars, clientVars, sendLog, dbVars, bulk, clearedIdle >>

\* enableTask(id)
EnableTask(id) ==
  /\ id \in 1..Len(tasks)
  /\ tasks[id].inMap
  /\ tasks' = [tasks EXCEPT ![id].enabled = TRUE,
                            ![id].nextRun = calculateNextRunTime(tasks[id])]
  /\ UNCHANGED << isRunning, checkInterval, passes, execs, events, mainWindow, now,
                  queueVars, clientVars, sendLog, dbVars, bulk, clearedIdle >>

\* setMainWindow(window)
SetMainWindow ==
  /\ mainWindow' = "open"
  /\ UNCHANGED << isRunning, checkInterval, tasks, passes, execs, events, now,
                  queueVars, clientVars, sendLog, dbVars, bulk, clearedIdle >>

\* the window is closed (isDestroyed() from now on); live is history: the
\* window was there at every step of the execution
WindowDestroyed ==
  /\ mainWindow = "open"
  /\ mainWindow' = "destroyed"
  /\ execs' = [e \in 1..Len(execs) |->
                 IF execs[e].pc = "done" THEN execs[e] ELSE [execs[e] EXCEPT !.live = FALSE]]
  /\ UNCHANGED << isRunning, checkInterval, tasks, passes, events, now,
                  queueVars, clientVars, sendLog, dbVars, bulk, clearedIdle >>

\* stopScheduler(); this.runningTimers is never added to
StopScheduler ==
  /\ isRunning' = FALSE
  /\ checkInterval' = -1
  /\ UNCHANGED << tasks, passes, execs, events, mainWindow, now,
                  queueVars, clientVars, sendLog, dbVars, bulk, clearedIdle >>

\* the due tasks in the order of this.tasks
dueTasks == SelectSeq([id \in 1..Len(tasks) |-> id],
                      LAMBDA id : tasks[id].inMap /\ isDue(tasks[id]))

\* the setInterval callback: checkAndExecuteTasks() up to its first await
\* that waits for a timeout, or to its end
Tick ==
  /\ checkInterval # -1
  /\ now = checkInterval
  /\ checkInterval' = now + CheckEvery
  /\ IF ~isRunning THEN UNCHANGED << tasks, passes, execs, events >>
     ELSE LET p == Len(passes) + 1
          IN StoreSched(runPass([CurSched EXCEPT
                                   !.passes = Append(@, [due |-> dueTasks, pos |-> 1])], p))
  /\ UNCHANGED << isRunning, mainWindow, now,
                  queueVars, clientVars, sendLog, dbVars, bulk, clearedIdle >>

\* the timeout between two batches of execution e has elapsed: the for loop
\* goes on with i += batchSize
BatchDelayElapsed(e) ==
  /\ e \in 1..Len(execs)
  /\ execs[e].pc = "waiting"
  /\ now = execs[e].wakeAt
  /\ LET batchSize == OrDefault(tasks[execs[e].task].batchSize, DefaultBatchSize)
     IN StoreSched(runBatches([CurSched EXCEPT !.execs[e].pc = "running",
                                               !.execs[e].i = @ + batchSize], e))
  /\ UNCHANGED << isRunning, checkInterval, mainWindow, now,
                  queueVars, clientVars, sendLog, dbVars, bulk, clearedIdle >>

\* the times at which a timer of the scheduler is due
SchedDue ==
  (IF checkInterval = -1 THEN {} ELSE {checkInterval})
    \cup { execs[e].wakeAt : e \in { x \in 1..Len(execs) : execs[x].pc = "waiting" } }

\* time moves on to the next timer of the scheduler
SchedAdvance ==
  /\ SchedDue # {}
  /\ MinOf(SchedDue) > now
  /\ MinOf(SchedDue) <= MaxTicks * CheckEvery
  /\ now' = MinOf(SchedDue)
  /\ UNCHANGED << isRunning, checkInterval, tasks, passes, execs, events, mainWindow,
                  queueVars, clientVars, sendLog, dbVars, bulk, clearedIdle >>

\* the scheduler with its callers and its timers
SchedNext ==
  \/ \E inp \in TaskInputs : CreateTask(inp)
  \/ \E id \in 1..MaxSchedTasks : DeleteTask(id)
  \/ \E id \in 1..MaxSchedTasks : DisableTask(id)
  \/ \E id \in 1..MaxSchedTasks : EnableTask(id)
  \/ StopScheduler
  \/ Tick
  \/ \E e \in 1..(MaxSchedTasks * MaxTicks) : BatchDelayElapsed(e)
  \/ SchedAdvance

\* the scheduler with a window that is set and closed
EventNext ==
  \/ \E inp \in TaskInputs : CreateTask(inp)
  \/ SetMainWindow
  \/ WindowDestroyed
  \/ Tick
  \/ \E e \in 1..(MaxSchedTasks * MaxTicks) : BatchDelayElapsed(e)
  \/ SchedAdvance

\* new SchedulerService(): the constructor calls startScheduler()
SchedInit == InitWith(MakeOptions(WhatsAppConfig), "valid")

SchedSpec == SchedInit /\ [][SchedNext]_vars

EventSpec == SchedInit /\ [][EventNext]_vars

\* ------------------------------------------ WhatsAppQueue.sendBulkMessages
\* the arguments of sendBulkMessages(): messages.length, batchSize, batchDelay
BulkInputs ==
  { [n |-> 1, batchSize |-> DefaultBulkBatchSize, batchDelay |-> DefaultBulkBatchDelay],
    [n |-> 2, batchSize |-> 1, batchDelay |-> DefaultBulkBatchDelay],
    [n |-> 3, batchSize |-> 2, batchDelay |-> DefaultBulkBatchDelay] }

\* Promise.all in the place of allSettled: rejected when a member is
Promiseall(pr, st, members) ==
  [ rejected |-> \E j \in 1..Len(members) : pr[members[j]] # "resolved",
    outcomes |-> [j \in 1..Len(members) |->
                    [status |-> "fulfilled", value |-> st[members[j]]]] ]

\* Promise.allSettled(batchPromises): never rejected; one {status, value} or
\* {status, reason} per promise, in the order of the promises
allSettled(pr, st, members) ==
  [ rejected |-> FALSE,
    outcomes |-> [j \in 1..Len(members) |->
                    [status |-> IF pr[members[j]] = "resolved" THEN "fulfilled" ELSE "rejected",
                     value |-> st[members[j]]]] ]

\* the number of messages in messages.slice(i, i + batchSize)
batchLength(i, batchSize, n) == IF i + batchSize < n THEN batchSize ELSE n - i

\* batch.map(msg => this.sendMessage(msg.sendFunction, msg.phone)) for the
\* batch at i, from the fields s; the body runs up to its await of allSettled
submitBatch(s, b, i) ==
  LET k == batchLength(i, b.batchSize, b.n) IN
  /\ Store(addMany(s, k, 0, 3, 0))
  /\ promise' = Extend(promise, k, "pending")
  /\ settled' = Extend(settled, k, NoResult)
  /\ attemptLog' = Extend(attemptLog, k, << >>)
  /\ bulk' = [b EXCEPT !.pc = "awaiting", !.i = i,
                       !.itemOf = @ \o [j \in 1..k |-> Len(items) + j]]

\* sendBulkMessages(messages, batchSize, batchDelay)
SendBulkMessages(inp) ==
  /\ bulk.pc = "idle"
  /\ Len(items) + inp.n <= MaxTasks
  /\ submitBatch(Cur, [bulk EXCEPT !.n = inp.n, !.batchSize = inp.batchSize,
                                   !.batchDelay = inp.batchDelay], 0)
  /\ UNCHANGED << options, drainState, paused, batches, stats, clientVars, sendLog,
                  dbVars, clearedIdle, schedVars >>

\* the promises of the current batch
batchPromises == SubSeq(bulk.itemOf, bulk.i + 1, Len(bulk.itemOf))

\* every promise of the batch is settled: the await of allSettled returns,
\* results.push(...batchResults), then the delay before the next batch or
\* the return of the results
BatchSettled ==
  /\ bulk.pc = "awaiting"
  /\ \A j \in 1..Len(batchPromises) : promise[batchPromises[j]] # "pending"
  /\ LET a == allSettled(promise, settled, batchPromises) IN
     IF a.rejected
     THEN /\ bulk' = [bulk EXCEPT !.pc = "rejected"]
          /\ UNCHANGED timers
     ELSE IF bulk.i + bulk.batchSize < bulk.n
     THEN /\ bulk' = [bulk EXCEPT !.pc = "delay", !.results = @ \o a.outcomes]
          /\ timers' = Append(timers, Timer("bulk", 0, bulk.batchDelay))
     ELSE /\ bulk' = [bulk EXCEPT !.pc = "done", !.results = @ \o a.outcomes]
          /\ UNCHANGED timers
  /\ startLog' = << >>
  /\ UNCHANGED << options, items, queue, running, processing, lastProcessTimes, promise,
                  drainState, paused, startsNow, resultVars, stats, clientVars, sendLog,
                  dbVars, clearedIdle, schedVars >>

\* the delay between two batches has elapsed: i += batchSize and the next
\* batch is submitted
BulkDelayElapsed(t) ==
  /\ t \in 1..Len(timers)
  /\ timers[t].kind = "bulk"
  /\ timers[t].left = 0
  /\ submitBatch([Cur EXCEPT !.timers = RemoveAt(timers, t)], bulk, bulk.i + bulk.batchSize)
  /\ UNCHANGED << options, drainState, paused, batches, stats, clientVars, sendLog,
                  dbVars, clearedIdle, schedVars >>

\* the items the bounds leave to other callers while the messages of the
\* bulk send are still to be submitted
BulkRoom == Len(items) + (bulk.n - Len(bulk.itemOf)) < MaxTasks

\* WhatsAppQueue with a caller of sendBulkMessages() beside callers of
\* sendMessage() and clearQueue()
BulkNext ==
  \/ \E inp \in BulkInputs : SendBulkMessages(inp)
  \/ BatchSettled
  \/ \E t \in 1..MaxTasks : BulkDelayElapsed(t)
  \/ BulkRoom /\ QueueSendMessage(0)
  \/ \E id \in 1..MaxTasks, ok \in BOOLEAN : Complete(id, ok)
  \/ \E i \in 1..Len(timers) : TimerFires(i)
  \/ \E d \in TimeSteps : Advance(d)
  \/ ClearQueue

\* The event loop runs every callback and every promise reaction that is due,
\* time passes, and every send function terminates.
BulkSpec ==
  /\ SendInit
  /\ [][BulkNext]_vars
  /\ WF_vars((\E i \in 1..Len(timers) : TimerFires(i)) \/ (\E d \in TimeSteps : Advance(d)))
  /\ WF_vars(\E t \in 1..MaxTasks : BulkDelayElapsed(t))
  /\ WF_vars(\E id \in 1..MaxTasks, ok \in BOOLEAN : Complete(id, ok))
  /\ WF_vars(BatchSettled)

Next ==
  \/ \E a \in AddInputs : Add(a.priority, a.maxAttempts, a.delay)
  \/ \E id \in 1..MaxTasks, ok \in BOOLEAN : Complete(id, ok)
  \/ \E i \in 1..Len(timers) : TimerFires(i)
  \/ \E d \in TimeSteps : Advance(d)
  \/ ClearQueue
  \/ Pause
  \/ Resume
  \/ Drain

Spec == Init /\ [][Next]_vars

\* The queue driven by its callers' add() and clearQueue(), the operations'
\* outcomes and the timers only: the steps that move items between the queue,
\* the running set and the pending timeouts.
QueueNext ==
  \/ \E a \in AddInputs : Add(a.priority, a.maxAttempts, a.delay)
  \/ \E id \in 1..MaxTasks, ok \in BOOLEAN : Complete(id, ok)
  \/ \E i \in 1..Len(timers) : TimerFires(i)
  \/ \E d \in TimeSteps : Advance(d)
  \/ ClearQueue

QueueSpec == Init /\ [][QueueNext]_vars

\* the queue with a caller whose last call is clearQueue(): no add() follows
\* a clearQueue() that found an item outside the running set
ClearNext ==
  \/ \E a \in AddInputs : clearedIdle = {} /\ Add(a.priority, a.maxAttempts, a.delay)
  \/ \E id \in 1..MaxTasks, ok \in BOOLEAN : Complete(id, ok)
  \/ \E i \in 1..Len(timers) : TimerFires(i)
  \/ \E d \in TimeSteps : Advance(d)
  \/ ClearQueueNoted

ClearSpec == Init /\ [][ClearNext]_vars

\* the same queue with callers that also use addBatch()
BatchNext ==
  \/ QueueNext
  \/ \E n \in 1..MaxTasks, a \in AddInputs : AddBatch(n, a.priority, a.maxAttempts, a.delay)

BatchSpec == Init /\ [][BatchNext]_vars

\* the same queue with an observer calling getStats()
StatsNext ==
  \/ QueueNext
  \/ GetStats

StatsSpec == Init /\ [][StatsNext]_vars

\* The event loop runs every callback that is due, time passes, and every
\* invoked operation terminates.
FairInit == Init /\ options.maxConcurrency = 1

FairSpec ==
  /\ FairInit
  /\ [][Next]_vars
  /\ WF_vars((\E i \in 1..Len(timers) : TimerFires(i)) \/ (\E d \in TimeSteps : Advance(d)))
  /\ WF_vars(\E id \in 1..MaxTasks, ok \in BOOLEAN : Complete(id, ok))

\* the queue with addBatch() under the same event loop
FairBatchSpec ==
  /\ Init
  /\ [][BatchNext]_vars
  /\ WF_vars((\E i \in 1..Len(timers) : TimerFires(i)) \/ (\E d \in TimeSteps : Advance(d)))
  /\ WF_vars(\E id \in 1..MaxTasks, ok \in BOOLEAN : Complete(id, ok))

\* ------------------------------------------------------------------ claims
Idle == queue = << >> /\ running = {}
InTimer(kind, id) == \E i \in 1..Len(timers) : timers[i].kind = kind /\ timers[i].id = id

\* C1: in every reachable state the running set holds at most maxConcurrency
\* items.
C1_ConcurrencyCap == Cardinality(running) <= options.maxConcurrency

C1_Witness ==
  /\ options.maxConcurrency = 2
  /\ Cardinality(running) = 2
  /\ Len(queue) > 0
  /\ paused

\* C2: the number of starts inside a trailing window of RateWindow ms is at
\* most rateLimitPerSecond.  The starts made since time last moved on all lie
\* in the window that ends now, so their number is bounded by the cap too.
C2_RateCap == startsNow <= options.rateLimitPerSecond

\* C3: the operation of an item is invoked at most maxAttempts times; its
\* promise is rejected with the operation's error only after the
\* maxAttempts-th invocation, and an earlier failure leaves the promise
\* pending with a retry scheduled.
C3_RetryBound ==
  /\ [](\A id \in Ids :
          /\ items[id].attempts <= items[id].maxAttempts
          /\ promise[id] = "rejected" => items[id].attempts = items[id].maxAttempts
          /\ InTimer("retry", id) =>
               promise[id] = "pending" /\ items[id].attempts < items[id].maxAttempts)
  /\ [][\A id \in Ids :
          (id \in running /\ id \notin running' /\ promise'[id] = "pending")
            => /\ items[id].attempts < items[id].maxAttempts
               /\ InTimer("retry", id)']_vars

C3_Witness ==
  \E id \in Ids :
    promise[id] = "rejected" /\ items[id].maxAttempts = 3 /\ items[id].attempts = 3

\* C4: between pause() and resume() no step moves an item from the pending
\* list into the running set.
C4_PauseStopsStarts == paused => startLog = << >>

\* C5: clearQueue() rejects, with the cancellation error, the promise of
\* every item that was submitted and whose operation has not been started.
C5_ClearRejectsUnstarted ==
  [][ClearQueue =>
       \A id \in Ids :
         (items[id].attempts = 0 /\ promise[id] = "pending") => promise'[id] = "cancelled"]_vars

\* C6: drain() resolves only when the pending list and the running set are
\* both empty, and a waiting drain() resolves if the queue stays that way.
C6_Drain ==
  /\ [][(drainState' = "resolved" /\ (drainState # "resolved" \/ Drain))
          => Idle /\ Idle']_vars
  /\ (drainState = "waiting" /\ Idle) ~> (drainState = "resolved" \/ ~Idle)

C6_Witness ==
  /\ drainState = "resolved"
  /\ Idle
  /\ timers = << >>
  /\ \E id \in Ids : promise[id] = "rejected" /\ items[id].attempts > 1

\* C7: at the moment an item is started, no item of the pending list has a
\* strictly higher priority.
C7_PriorityOrder ==
  \A k \in 1..Len(startLog) :
    \A j \in 1..Len(startLog[k].pending) :
      items[startLog[k].pending[j]].priority <= items[startLog[k].id].priority

\* a retried item is started ahead of a pending item of lower priority
C7_Witness ==
  \E k \in 1..Len(startLog) :
    /\ items[startLog[k].id].attempts > 1
    /\ \E j \in 1..Len(startLog[k].pending) :
         items[startLog[k].pending[j]].priority < items[startLog[k].id].priority

\* C8: when the delay of an item has elapsed and a concurrency slot is free,
\* the item is started.
C8_DelayedItemStarts ==
  [][\A i \in 1..Len(timers) :
       (TimerFires(i) /\ timers[i].kind = "delay" /\ hasSlot(running))
         => timers[i].id \in running']_vars

\* C9: after the k-th failed attempt (k < maxAttempts) the item waits
\* retryDelay * 2^(k-1) ms outside the pending list and the running set, and
\* its operation is not invoked while the wait lasts.
C9_Backoff ==
  /\ [](\A i \in 1..Len(timers) :
          timers[i].kind = "retry" =>
            LET id == timers[i].id
                k == items[id].attempts
            IN /\ k >= 1 /\ k < items[id].maxAttempts
               /\ timers[i].delay = options.retryDelay * 2^(k - 1)
               /\ timers[i].left >= 0 /\ timers[i].left <= timers[i].delay
               /\ id \notin running
               /\ id \notin SeqToSet(queue))
  /\ [](LET wa == MakeOptions(WhatsAppConfig)
        IN /\ BackoffDelay(wa.retryDelay, 1) = 2000
           /\ BackoffDelay(wa.retryDelay, 2) = 4000)
  /\ [][\A id \in Ids :
          (\E i \in 1..Len(timers) :
             timers[i].kind = "retry" /\ timers[i].id = id /\ timers[i].left > 0)
            => items'[id].attempts = items[id].attempts]_vars

\* the second retry of an item has waited 2 * retryDelay and is due
C9_Witness ==
  \E i \in 1..Len(timers) :
    /\ timers[i].kind = "retry"
    /\ items[timers[i].id].attempts = 2
    /\ timers[i].delay = 2 * options.retryDelay
    /\ timers[i].left = 0

\* C10: no item waits in the pending list while a concurrency slot is free,
\* and every item added without delay has its promise settled eventually.
C10_NoStall ==
  /\ [](Len(queue) > 0 => ~hasSlot(running))
  /\ []<>(\A id \in Ids : items[id].delay = 0 => promise[id] # "pending")

C10_Witness ==
  /\ Len(items) = MaxTasks
  /\ \A id \in Ids : items[id].delay = 0 /\ promise[id] # "pending"
  /\ \E id \in Ids : promise[id] = "resolved" /\ items[id].attempts > 1

\* C11: a resolved promise carries the value of the first successful
\* invocation, a promise rejected after the retries carries the error of the
\* maxAttempts-th invocation, and a failed attempt before that leaves the
\* promise unsettled; what a promise carries never changes.
C11_ResultAndLastError ==
  /\ [](\A id \in Ids :
          LET n == Len(attemptLog[id]) IN
          /\ promise[id] = "resolved" =>
               /\ n >= 1
               /\ attemptLog[id][n]
               /\ \A j \in 1..(n - 1) : ~attemptLog[id][j]
               /\ settled[id] = [kind |-> "value", attempt |-> n]
          /\ promise[id] = "rejected" =>
               /\ n = items[id].maxAttempts
               /\ \A j \in 1..n : ~attemptLog[id][j]
               /\ settled[id] = [kind |-> "error", attempt |-> items[id].maxAttempts]
          /\ promise[id] = "pending" =>
               /\ settled[id] = NoResult
               /\ \A j \in 1..n : ~attemptLog[id][j])
  /\ [][\A id \in Ids : settled[id] # NoResult => settled'[id] = settled[id]]_vars

\* one promise resolved by a second invocation, another rejected by the third
C11_Witness ==
  /\ \E id \in Ids : promise[id] = "resolved" /\ settled[id].attempt = 2
  /\ \E id \in Ids : promise[id] = "rejected" /\ settled[id].attempt = 3
                     /\ Len(attemptLog[id]) = 3

InBatch(b, id) == id \in SeqToSet(batches[b].members)

\* the item is in the pending list, running, or waiting for a timeout
Located(id) ==
  \/ id \in SeqToSet(queue)
  \/ id \in running
  \/ InTimer("retry", id)
  \/ InTimer("delay", id)

TimersOf(tm, id) == SelectSeq(tm, LAMBDA t : t.id = id /\ t.kind \in {"retry", "delay"})

\* C12: the permanent failure of one member of a batch changes nothing for
\* the other members: they keep their promise and their place, are started
\* when a slot is free, are retried with the configured backoff, and are
\* settled in the end as items added alone are (those without a delay).
C12_SiblingsNotCancelled ==
  /\ []<>(\A b \in 1..Len(batches) : \A m \in SeqToSet(batches[b].members) :
            items[m].delay = 0 => promise[m] # "pending")
  /\ [](\A b \in 1..Len(batches) : \A m \in SeqToSet(batches[b].members) :
          /\ promise[m] = "pending" => Located(m)
          /\ (batches[b].state = "rejected" /\ m \in SeqToSet(queue)) => ~hasSlot(running))
  /\ [][\A b \in 1..Len(batches) :
          (batches[b].state = "pending" /\ batches'[b].state = "rejected"
             /\ batches'[b].error.kind = "error")
            => \E id \in SeqToSet(batches[b].members) :
                 /\ promise[id] = "pending" /\ promise'[id] = "rejected"
                 /\ \A m \in SeqToSet(batches[b].members) \ {id} :
                      /\ promise'[m] = promise[m]
                      /\ m \in running => m \in running' /\ items'[m] = items[m]
                      /\ m \in SeqToSet(queue) => (m \in SeqToSet(queue') \/ m \in running')
                      /\ TimersOf(timers', m) = TimersOf(timers, m)]_vars
  /\ [][\A b \in 1..Len(batches) : \A m \in SeqToSet(batches[b].members) :
          (batches[b].state = "rejected" /\ m \in running /\ m \notin running'
             /\ promise'[m] = "pending")
            => /\ items[m].attempts < items[m].maxAttempts
               /\ \E i \in 1..Len(timers') :
                    /\ timers'[i].kind = "retry" /\ timers'[i].id = m
                    /\ timers'[i].left = options.retryDelay * 2^(items[m].attempts - 1)]_vars

\* a batch rejected by the failure of one member while another member, retried
\* once, has resolved
C12_Witness ==
  \E b \in 1..Len(batches) :
    /\ batches[b].state = "rejected"
    /\ batches[b].error.kind = "error"
    /\ \E m \in SeqToSet(batches[b].members) :
         promise[m] = "resolved" /\ settled[m].attempt = 2

\* C13: the promise of addBatch() is settled only when every member is
\* settled, and its outcome holds the value of every member that succeeded.
C13_BatchAllSettled ==
  \A b \in 1..Len(batches) :
    batches[b].state # "pending" =>
      LET mem == batches[b].members IN
      /\ \A i \in 1..Len(mem) : promise[mem[i]] # "pending"
      /\ \A i \in 1..Len(mem) :
           promise[mem[i]] = "resolved" =>
             /\ Len(batches[b].results) = Len(mem)
             /\ batches[b].results[i] = settled[mem[i]]

\* C14: getStats() leaves the pending list, the running set, the rate window
\* and the processing flag alone; it returns the length of the pending list,
\* the size of the running set and the number of starts in the trailing
\* window of RateWindow ms, which is no less than the number of starts made
\* since time last moved on.
C14_GetStats ==
  [][GetStats =>
       /\ UNCHANGED << queue, running, lastProcessTimes, processing >>
       /\ stats'[1].queueLength = Len(queue)
       /\ stats'[1].runningCount = Cardinality(running)
       /\ stats'[1].currentRate >= startsNow]_vars

\* the calls of sendMessage that have returned
DoneSends == { c \in 1..Len(calls) : calls[c].method = "sendMessage" /\ calls[c].pc = "done" }

\* the provider accepted the message of the call
Accepted(c) ==
  /\ calls[c].outcome.kind = "response"
  /\ calls[c].outcome.status \in 200..299
  /\ calls[c].outcome.wellFormed

\* C15: sendMessage never ends with a thrown error: it returns
\* {success: true, messageId} when the provider accepted the message and
\* {success: false, error} after everything else.
C15_SendNeverThrows ==
  \A c \in DoneSends :
    /\ ~calls[c].result.threw
    /\ Accepted(c) => calls[c].result.success /\ calls[c].result.messageId
    /\ ~Accepted(c) => /\ ~calls[c].result.success
                       /\ calls[c].result.error \notin {NoError, NoReturn.error}

\* one call ended by a timeout and another accepted by the provider
C15_Witness ==
  /\ \E c \in DoneSends : calls[c].outcome.kind = "noresponse" /\ ~calls[c].result.success
  /\ \E c \in DoneSends : Accepted(c) /\ calls[c].result.success

\* C16: a call of sendMessage whose getApiCredentials() returned null ends
\* with a failure and hands no request to the network.
C16_NoCredentialsNoRequest ==
  \A c \in 1..Len(calls) :
    (calls[c].method = "sendMessage" /\ calls[c].creds = "null") =>
      /\ calls[c].pc = "done"
      /\ ~calls[c].result.threw /\ ~calls[c].result.success
      /\ calls[c].result.error = Msg("No API credentials found", 0)
      /\ \A r \in requests : r.call # c

\* a call failed for want of credentials while another call's request went out
C16_Witness ==
  /\ \E c \in DoneSends : calls[c].creds = "null"
  /\ requests # {}

\* what the classification looks at: the status of the response, all 5xx
\* taken together, or the absence of a response
ErrorInput(o) ==
  IF o.kind = "response"
  THEN CASE o.status = 400 -> "400"
         [] o.status = 401 -> "401"
         [] o.status = 403 -> "403"
         [] o.status = 404 -> "404"
         [] o.status = 429 -> "429"
         [] o.status \in 500..599 -> "5xx"
         [] OTHER -> "other"
  ELSE IF o.kind = "noresponse" THEN "noresponse" ELSE "other"

\* the calls of sendMessage whose request was made and failed, the provider
\* giving no message of its own
FailedSends == { c \in DoneSends : /\ calls[c].outcome.kind \in {"response", "noresponse"}
                                   /\ ~calls[c].outcome.userMsg
                                   /\ ~(calls[c].outcome.kind = "response"
                                        /\ calls[c].outcome.status \in 200..299) }

\* C17: two failures are put in the same category exactly when they have the
\* same classification input: 400, 401, 403, 404, 429, any 5xx, no response,
\* anything else.  The category of a failure is the text of the error that
\* sendMessage returns for it.
C17_ClosedTaxonomy ==
  \A c1, c2 \in FailedSends :
    (ErrorInput(calls[c1].outcome) = ErrorInput(calls[c2].outcome))
      <=> (calls[c1].result.error.text = calls[c2].result.error.text)

\* C18: every request handed to the network has the Authorization header.
C18_EveryRequestAuthorized ==
  \A r \in requests : r.authorization

\* the attempt failed in a way that is worth another attempt
RetryWorthy(o) ==
  \/ o.kind = "noresponse"
  \/ o.kind = "response" /\ (o.status = 429 \/ o.status \in 500..599)

\* the provider refused the request for good
ClientError(o) == o.kind = "response" /\ o.status \in {400, 401, 403, 404}

\* C19: when an invocation of a queued send ends with a client error the
\* item is finished after that one attempt; when it ends with a retry-worthy
\* error the queue schedules another attempt, until the third.
C19_AttemptsPerErrorKind ==
  [][\A id \in Ids :
       (sendLog' # sendLog /\ sendLog'[1].id = id) =>
         LET e == sendLog'[1] IN
         /\ ClientError(e.outcome) =>
              e.attempt = 1 /\ promise'[id] # "pending" /\ ~InTimer("retry", id)'
         /\ (RetryWorthy(e.outcome) /\ e.attempt < 3) =>
              promise'[id] = "pending" /\ InTimer("retry", id)'
         /\ (RetryWorthy(e.outcome) /\ e.attempt >= 3) => promise'[id] # "pending"]_vars

StatusEdges ==
  { << "pending", "sent" >>, << "pending", "failed" >>, << "sent", "delivered" >>,
    << "sent", "failed" >>, << "delivered", "read" >> }

\* C20: the stored status of a message changes only along pending->sent,
\* pending->failed, sent->delivered, sent->failed and delivered->read.
C20_StatusTransitions ==
  [][\A id \in 1..Len(messages) :
       messages'[id].status # messages[id].status
         => << messages[id].status, messages'[id].status >> \in StatusEdges]_vars

\* C21: every row of the campaigns table has sentCount <= totalContacts and
\* deliveredCount + failedCount <= sentCount, whatever createCampaign,
\* updateCampaign and updateCampaignCounts calls were made.
C21_CounterInvariant ==
  \A id \in 1..Len(campaigns) :
    /\ campaigns[id].sentCount <= campaigns[id].totalContacts
    /\ campaigns[id].deliveredCount + campaigns[id].failedCount <= campaigns[id].sentCount

\* the outcomes of a kind recorded for a campaign by the tasks that are through
Recorded(id, outcome) ==
  Cardinality({ r \in 1..Len(recorders) : /\ recorders[r].campaign = id
                                          /\ recorders[r].outcome = outcome
                                          /\ recorders[r].pc = "done" })

\* C22: when every task recording an outcome of a campaign is through, the
\* stored sent, delivered and failed counts of the campaign are the numbers
\* of outcomes recorded.
C22_NoLostUpdate ==
  \A id \in 1..Len(campaigns) :
    (\A r \in 1..Len(recorders) : recorders[r].campaign = id => recorders[r].pc = "done")
      => /\ campaigns[id].sentCount = Recorded(id, "sent")
         /\ campaigns[id].deliveredCount = Recorded(id, "delivered")
         /\ campaigns[id].failedCount = Recorded(id, "failed")

\* the execution has begun and is not over
InProgress(e) == execs[e].pc # "done"

\* C23: no task has two executions in progress at once: the periodic check
\* begins no execution of a task while an earlier execution of the same task
\* is waiting between two batches.
C23_NoDoubleDispatch ==
  \A e1, e2 \in 1..Len(execs) :
    (e1 # e2 /\ execs[e1].task = execs[e2].task) => ~(InProgress(e1) /\ InProgress(e2))

\* C30: once stopScheduler() has returned, no execution of a task begins.
C30_StopIsEffective ==
  [][~isRunning => Len(execs') = Len(execs)]_vars

\* the execution runs a campaign task
CampaignExec(e) == tasks[execs[e].task].type = "campaign"

\* the 'message-sent' events of an execution, in the order they were sent
MessageSent(e) == SelectSeq(events[e], LAMBDA ev : ev.name = "message-sent")

\* the number of contacts whose batch the execution has begun
Handled(e) ==
  LET t == tasks[execs[e].task]
      upTo == execs[e].i + OrDefault(t.batchSize, DefaultBatchSize)
  IN IF execs[e].pc = "done" \/ upTo > t.contacts THEN t.contacts ELSE upTo

\* the events of the execution are: the start, one 'message-sent' per contact
\* handled so far in the order of the contact list, and the completion after
\* the last contact and only then
EventsInOrder(e) ==
  LET n == tasks[execs[e].task].contacts
      evs == events[e]
      k == Handled(e)
  IN /\ Len(evs) >= k + 1
     /\ evs[1] = Event("campaign-scheduled-start", 0)
     /\ \A c \in 1..k : evs[c + 1] = Event("message-sent", c)
     /\ Len(MessageSent(e)) = k
     /\ \A j \in 1..Len(evs) : evs[j].name = "campaign-scheduled-start" => j = 1
     /\ IF execs[e].pc = "done"
        THEN /\ Len(evs) = n + 3
             /\ evs[n + 2] = Event("campaign-scheduled-complete", 0)
             /\ evs[n + 3] = Event("task-executed", 0)
        ELSE Len(evs) = k + 1

\* a batch is begun after a wait only when the timeout of the previous batch,
\* set to the inter-batch delay, has elapsed
BatchesWait ==
  \A e \in 1..Len(execs') :
    LET begun == e <= Len(execs)
        delay == OrDefault(tasks'[execs'[e].task].delay, DefaultBatchDelay)
    IN /\ (begun /\ execs'[e].i > execs[e].i) =>
            execs[e].pc = "waiting" /\ now >= execs[e].wakeAt
       /\ (execs'[e].pc = "waiting" /\ (~begun \/ execs'[e].i > execs[e].i)) =>
            execs'[e].wakeAt = now + delay

\* C26 as stated: in every execution of a campaign task the start event
\* precedes every 'message-sent' event, there is exactly one 'message-sent'
\* event per contact in the order of the contact list, the completion event
\* comes only after the event of the last contact, and no batch is begun
\* before the delay after the previous one has elapsed.
C26_EventOrder ==
  /\ [](\A e \in 1..Len(execs) : CampaignExec(e) => EventsInOrder(e))
  /\ [][BatchesWait]_vars

\* C26 as amended: the same for every execution during which the main window
\* is set and not destroyed; in any execution the 'message-sent' events are
\* in the order of the contact list with at most one per contact, and the
\* completion event follows the event of the last contact at once.
C26_EventOrderWithWindow ==
  /\ [](\A e \in 1..Len(execs) : CampaignExec(e) =>
          LET n == tasks[execs[e].task].contacts
              evs == events[e]
              ms == MessageSent(e)
          IN /\ execs[e].live => EventsInOrder(e)
             /\ \A j \in 1..(Len(ms) - 1) : ms[j].contact < ms[j + 1].contact
             /\ \A j \in 1..Len(ms) : ms[j].contact \in 1..Handled(e)
             /\ \A j \in 1..Len(evs) :
                  evs[j].name = "campaign-scheduled-complete" =>
                    /\ execs[e].pc = "done"
                    /\ j > 1
                    /\ evs[j - 1] = Event("message-sent", n))
  /\ [][BatchesWait]_vars

\* an execution over two batches with the window there throughout, and one
\* that has lost its window
C26_Witness ==
  /\ \E e \in 1..Len(execs) :
       /\ CampaignExec(e) /\ execs[e].pc = "done" /\ execs[e].live
       /\ execs[e].i > 0
       /\ Len(events[e]) = 6
  /\ \E e \in 1..Len(execs) : CampaignExec(e) /\ ~execs[e].live

\* C24: sendBulkMessages() is never rejected; when it returns, results holds
\* one outcome per message in the order of the messages, each the outcome of
\* that message's promise, and every message has been submitted and settled;
\* once called it returns, whatever messages failed on the way.
C24_BulkNeverAborts ==
  /\ [](bulk.pc # "rejected")
  /\ [](bulk.pc = "done" =>
          /\ Len(bulk.itemOf) = bulk.n
          /\ Len(bulk.results) = bulk.n
          /\ \A m \in 1..bulk.n :
               LET id == bulk.itemOf[m] IN
               /\ promise[id] # "pending"
               /\ bulk.results[m].status = "fulfilled" <=> promise[id] = "resolved"
               /\ bulk.results[m].value = settled[id]
               /\ \A m2 \in 1..(m - 1) : bulk.itemOf[m2] < id)
  /\ (bulk.pc = "awaiting") ~> (bulk.pc = "done")

\* three messages in two batches: one of the first batch failed for good
\* after its third attempt, the message of the second batch was delivered
C24_Witness ==
  /\ bulk.pc = "done"
  /\ bulk.n = 3
  /\ bulk.results[3].status = "fulfilled"
  /\ \E m \in 1..2 : /\ bulk.results[m].status = "rejected"
                     /\ bulk.results[m].value = [kind |-> "error", attempt |-> 3]

\* the invocation of the item's operation has ended in this step
Ended(id) == Len(attemptLog'[id]) > Len(attemptLog[id])

\* the pending items whose operation the loop may invoke
Startable == SelectSeq(queue, LAMBDA j : items[j].delay = 0)

\* C25: when the invocation of a running item ends, with a value, with its
\* last error or with an error that schedules a retry, the item leaves the
\* running set and process() runs: the first pending item is started in the
\* same step and no item is left pending beside a free slot.  An item that
\* waits for its retry is not in the running set.
C25_SlotReleased ==
  /\ [](\A id \in Ids : InTimer("retry", id) => id \notin running)
  /\ [][\A id \in Ids :
          (id \in running /\ Ended(id)) =>
            /\ id \notin running'
            /\ promise'[id] = "pending" => InTimer("retry", id)'
            /\ ~(Len(queue') > 0 /\ hasSlot(running'))
            /\ Startable # << >> =>
                 /\ Head(Startable) \in running'
                 /\ items'[Head(Startable)].attempts = items[Head(Startable)].attempts + 1
                 /\ Head(Startable) \notin SeqToSet(queue')]_vars

\* with one slot: an item waits for its retry while the item that was
\* pending behind it has been started by the step that ended the invocation
C25_Witness ==
  /\ options.maxConcurrency = 1
  /\ Len(startLog) = 1
  /\ startLog[1].id \in running
  /\ \E id \in Ids : /\ InTimer("retry", id)
                     /\ id < startLog[1].id
                     /\ Len(attemptLog[id]) = 1
                     /\ settled[id] = NoResult

\* C27: in the step that resolves the promise of drain(), every item added so
\* far has its promise settled: none waits for its retry or for its delay to
\* be run afterwards.
C27_DrainMeansFinished ==
  [][(drainState' = "resolved" /\ (drainState # "resolved" \/ Drain)) =>
       \A id \in Ids :
         /\ promise'[id] # "pending"
         /\ ~InTimer("retry", id)'
         /\ ~InTimer("delay", id)']_vars

\* C28: the operation of an item that was not running when clearQueue() was
\* last called, no add() having followed, is not invoked any more, and the
\* item does not come back to the pending list.
C28_ClearIsFinal ==
  [][\A id \in clearedIdle :
       /\ items'[id].attempts = items[id].attempts
       /\ id \notin SeqToSet(queue')]_vars

\* a step in which resolve or reject of the item is called: by processItem
\* when its operation has returned or thrown for the last time, by clearQueue
\* for an item of the pending list
SettleCalled(id) ==
  \/ \E ok \in BOOLEAN : Complete(id, ok) /\ (ok \/ exhausted(items[id]))
  \/ ClearQueue /\ id \in SeqToSet(queue)

\* C29: resolve or reject is called only on a promise that is still pending
\* and a settled promise never changes, an operation is invoked only while
\* its promise is pending, and no item is twice in the pending list or in the
\* pending list and in the running set at once.
C29_SingleSettlement ==
  /\ [](/\ \A i, j \in 1..Len(queue) : queue[i] = queue[j] => i = j
        /\ SeqToSet(queue) \cap running = {})
  /\ [][\A id \in Ids :
          /\ SettleCalled(id) => promise[id] = "pending" /\ promise'[id] # "pending"
          /\ items'[id].attempts > items[id].attempts =>
               promise[id] = "pending" /\ promise'[id] = "pending"
          /\ promise[id] # "pending" =>
               promise'[id] = promise[id] /\ settled'[id] = settled[id]]_vars

\* one promise rejected by clearQueue before its operation was ever invoked
\* and another resolved by the invocation that followed a retry timer, with
\* the queue paused
C29_Witness ==
  /\ paused
  /\ \E id \in Ids : promise[id] = "cancelled" /\ items[id].attempts = 0
  /\ \E id \in Ids : promise[id] = "resolved" /\ items[id].attempts = 2

====
